---- MODULE Spec2Model ----
(***************************************************************************)
(* Model of the game logic of src/Game.cpp: the board generator            *)
(* (Game::create_board), the slide of the token (Game::move_player) and    *)
(* the key handler (Game::handle_event).                                   *)
(*                                                                         *)
(* board_meshes and goal_meshes are the two flat vectors of the program,   *)
(* indexed by y*board_size.x+x.  A mesh pointer is modelled by its name:   *)
(*   board_meshes[i] \in {"wall", "floor"}                                 *)
(*   goal_meshes[i]  \in {"null", "goop", "checkpoint",                    *)
(*                        "checkpoint_collected", "goal"}                  *)
(* The generator mt19937 is modelled as a nondeterministic choice of each  *)
(* value it returns.                                                       *)
(***************************************************************************)
EXTENDS Integers, Sequences, FiniteSets, TLC

VARIABLES board_size,    \* <<width, height>>
          board_meshes,  \* flat vector of "wall" / "floor"
          goal_meshes,   \* flat vector of markings
          player,        \* <<x, y>>
          checkpoints,   \* the checkpoint counter
          won,           \* the win flag
          pc,            \* "idle", or the position in a run of create_board
          evt,           \* the key of the event handled last
          from,          \* the token's position when that event arrived
          placed,        \* the cells g of the last create_board, in order
          gen            \* the locals of a run of create_board in progress

vars == <<board_size, board_meshes, goal_meshes, player, checkpoints, won,
          pc, evt, from, placed, gen>>

(***************************************************************************)
(* Bounds of the model.                                                    *)
(***************************************************************************)
\* values returned by mt() are drawn from 0..MaxMt
MaxMt == 7
\* random walks per placement (100 in the program) and steps per walk (20)
WalkIters == 2
WalkSteps == 2
\* the checkpoint counter is explored up to this value
MaxCheckpoints == 2
\* a cell of board_counts is at most this where the counts are drawn freely
MaxCount == 2

\* the board sizes explored
Sizes == {<<3, 3>>, <<4, 3>>, <<3, 4>>, <<5, 3>>, <<4, 4>>}

MtRange == 0 .. MaxMt

(***************************************************************************)
(* Helpers for the flat vectors.                                           *)
(***************************************************************************)
Max(a, b) == IF a >= b THEN a ELSE b

Idx(bs, x, y) == y * bs[1] + x

At(bs, pos) == Idx(bs, pos[1], pos[2])

NumCells(bs) == bs[1] * bs[2]

Interior(bs) == (1 .. bs[1] - 2) \X (1 .. bs[2] - 2)

(***************************************************************************)
(* Game::create_board                                                      *)
(***************************************************************************)
\* BaseTerrain with the x loop started at 0
BaseTerrainFromZero(bs) ==
    [i \in 0 .. NumCells(bs) - 1 |->
        IF \E x \in 0 .. bs[1] - 2, y \in 1 .. bs[2] - 2 : i = Idx(bs, x, y)
        THEN "floor" ELSE "wall"]

\* "remove everything": all wall, then floor on every interior cell
BaseTerrain(bs) ==
    [i \in 0 .. NumCells(bs) - 1 |->
        IF \E x \in 1 .. bs[1] - 2, y \in 1 .. bs[2] - 2 : i = Idx(bs, x, y)
        THEN "floor" ELSE "wall"]

EmptyGoals(bs) == [i \in 0 .. NumCells(bs) - 1 |-> "null"]

\* the positions random_board_position() can return
random_board_position(bs) ==
    {<<(r1 % (bs[1] - 2)) + 1, (r2 % (bs[2] - 2)) + 1>> : r1, r2 \in MtRange}

\* PlaceWall without the test for the player's cell
PlaceWallAnywhere(bs, bm, pos, pl) == [bm EXCEPT ![At(bs, pos)] = "wall"]

\* one iteration of the wall loop
PlaceWall(bs, bm, pos, pl) ==
    IF pos = pl THEN bm ELSE [bm EXCEPT ![At(bs, pos)] = "wall"]

\* the boards after n more iterations of the wall loop, from any board of S
RECURSIVE WallLoop(_, _, _, _)
WallLoop(bs, S, n, pl) ==
    IF n = 0 THEN S
    ELSE WallLoop(bs,
                  {PlaceWall(bs, bm, pos, pl) :
                       bm \in S, pos \in random_board_position(bs)},
                  n - 1, pl)

RandomWalls(bs, pl) ==
    UNION {WallLoop(bs, {BaseTerrain(bs)}, (r % 8) + 2, pl) : r \in MtRange}

\* PlaceGoop without the test for a wall
PlaceGoopAnywhere(bs, bm, gm, pos) == [gm EXCEPT ![At(bs, pos)] = "goop"]

\* one iteration of the goop loop
PlaceGoop(bs, bm, gm, pos) ==
    IF bm[At(bs, pos)] # "wall" THEN [gm EXCEPT ![At(bs, pos)] = "goop"]
    ELSE gm

RECURSIVE GoopLoop(_, _, _, _)
GoopLoop(bs, bm, S, n) ==
    IF n = 0 THEN S
    ELSE GoopLoop(bs, bm,
                  {PlaceGoop(bs, bm, gm, pos) :
                       gm \in S, pos \in random_board_position(bs)},
                  n - 1)

RandomGoops(bs, bm) ==
    UNION {GoopLoop(bs, bm, {EmptyGoals(bs)}, r % 4) : r \in MtRange}

directions == << <<-1, 0>>, <<1, 0>>, <<0, -1>>, <<0, 1>> >>

\* WalkSlide with the while loop taken at most once
WalkSlideOneCell(bs, bm, gm, at, d) ==
    IF bm[Idx(bs, at[1] + d[1], at[2] + d[2])] # "wall"
    THEN <<at[1] + d[1], at[2] + d[2]>>
    ELSE at

\* the inner while loop of a simulated step: slide from at in direction d
RECURSIVE WalkSlide(_, _, _, _, _)
WalkSlide(bs, bm, gm, at, d) ==
    IF bm[Idx(bs, at[1] + d[1], at[2] + d[2])] # "wall"
    THEN LET nxt == <<at[1] + d[1], at[2] + d[2]>>
         IN  IF gm[At(bs, nxt)] = "goop" THEN nxt
             ELSE WalkSlide(bs, bm, gm, nxt, d)
    ELSE at

\* one step of a walk: a walk state is [at, counts]
WalkStep(bs, bm, gm, S) ==
    {LET a == WalkSlide(bs, bm, gm, st.at, directions[(r % 4) + 1])
     IN  [at |-> a,
          counts |-> [st.counts EXCEPT ![At(bs, a)] = @ + 1]] :
         st \in S, r \in MtRange}

RECURSIVE WalkSteps_(_, _, _, _, _)
WalkSteps_(bs, bm, gm, S, n) ==
    IF n = 0 THEN S
    ELSE WalkSteps_(bs, bm, gm, WalkStep(bs, bm, gm, S), n - 1)

\* the sets of board_counts after n more walks that start at prev_goal
RECURSIVE WalkLoop(_, _, _, _, _, _)
WalkLoop(bs, bm, gm, prev_goal, C, n) ==
    IF n = 0 THEN C
    ELSE WalkLoop(bs, bm, gm, prev_goal,
                  {st.counts :
                       st \in WalkSteps_(bs, bm, gm,
                                  {[at |-> prev_goal, counts |-> c] : c \in C},
                                  WalkSteps)},
                  n - 1)

board_counts(bs, bm, gm, prev_goal) ==
    WalkLoop(bs, bm, gm, prev_goal,
             {[i \in 0 .. NumCells(bs) - 1 |-> 0]}, WalkIters)

\* possible_cells, filled in the order of the two for loops (y outer, x inner)
RECURSIVE PossibleFrom(_, _, _, _, _)
PossibleFrom(bs, gm, counts, pl, i) ==
    IF i >= NumCells(bs) THEN << >>
    ELSE LET x == i % bs[1]
             y == i \div bs[1]
             rest == PossibleFrom(bs, gm, counts, pl, i + 1)
         IN  IF x = pl[1] /\ y = pl[2] THEN rest
             ELSE IF gm[Idx(bs, x, y)] # "null" THEN rest
             ELSE IF counts[Idx(bs, x, y)] > 0 THEN << <<x, y>> >> \o rest
             ELSE rest

possible_cells(bs, gm, counts, pl) == PossibleFrom(bs, gm, counts, pl, 0)

\* std::stable_sort with the comparison counts[a] < counts[b]
RECURSIVE InsertSorted(_, _, _, _)
InsertSorted(bs, counts, s, c) ==
    IF s = << >> THEN <<c>>
    ELSE IF counts[At(bs, c)] < counts[At(bs, Head(s))] THEN <<c>> \o s
    ELSE <<Head(s)>> \o InsertSorted(bs, counts, Tail(s), c)

RECURSIVE StableSort(_, _, _)
StableSort(bs, counts, s) ==
    IF s = << >> THEN << >>
    ELSE InsertSorted(bs, counts,
                      StableSort(bs, counts, SubSeq(s, 1, Len(s) - 1)),
                      s[Len(s)])

\* the loop that extends limit; cells is 1-based, so the program's
\* possible_cells[k] is cells[k + 1]
RECURSIVE ExtendLimit(_, _, _, _)
ExtendLimit(bs, counts, cells, limit) ==
    IF limit + 1 < Len(cells)
       /\ counts[At(bs, cells[limit + 1])] = counts[At(bs, cells[limit + 2])]
    THEN ExtendLimit(bs, counts, cells, limit + 1)
    ELSE limit

\* Limit without the lower bound 1 of std::max
LimitNoMax(bs, counts, cells) ==
    ExtendLimit(bs, counts, cells, Len(cells) \div 4)

Limit(bs, counts, cells) ==
    ExtendLimit(bs, counts, cells, Max(1, Len(cells) \div 4))

\* the cells g the program can pick for one board_counts
PickGoal(bs, counts, cells) ==
    {cells[(r % Limit(bs, counts, cells)) + 1] : r \in MtRange}

\* stands for "possible_cells is empty" among the results of one iteration
NoCell == << >>

\* one iteration of the while (goals < 2) loop up to the choice of g: the
\* cells it can choose, and NoCell when it can leave the loop by the break
GoalChoices(bs, bm, gm, pl, prev_goal) ==
    UNION {
        LET cells == possible_cells(bs, gm, counts, pl)
        IN  IF cells = << >> THEN {NoCell}
            ELSE PickGoal(bs, counts, StableSort(bs, counts, cells))
        : counts \in board_counts(bs, bm, gm, prev_goal)}

\* the while (goals < 2) loop; a result is [goal_meshes, goals, prev_goal]
\* and placed, the cells g in the order of their placement
RECURSIVE GoalLoop(_, _, _, _, _, _, _)
GoalLoop(bs, bm, gm, pl, prev_goal, goals, pla) ==
    IF ~(goals < 2)
    THEN {[goal_meshes |-> gm, goals |-> goals, prev_goal |-> prev_goal,
           placed |-> pla]}
    ELSE UNION {
        IF g = NoCell
        THEN {[goal_meshes |-> gm, goals |-> goals, prev_goal |-> prev_goal,
               placed |-> pla]}
        ELSE GoalLoop(bs, bm, [gm EXCEPT ![At(bs, g)] = "checkpoint"],
                      pl, g, goals + 1, Append(pla, g))
        : g \in GoalChoices(bs, bm, gm, pl, prev_goal)}

\* one run of the body of create_board up to the test of goals
Attempts(bs, pl) ==
    UNION {UNION {
        {[board_meshes |-> bm, goal_meshes |-> r.goal_meshes,
          goals |-> r.goals, prev_goal |-> r.prev_goal,
          placed |-> r.placed] :
             r \in GoalLoop(bs, bm, gm, pl, pl, 0, << >>)}
        : gm \in RandomGoops(bs, bm)}
        : bm \in RandomWalls(bs, pl)}

\* Promote with the first placed cell in place of the last
PromoteFirst(bs, a) ==
    [board_meshes |-> a.board_meshes,
     goal_meshes |-> [a.goal_meshes EXCEPT ![At(bs, a.placed[1])] = "goal"],
     placed |-> a.placed]

\* "turn the last goal into the main goal"
Promote(bs, a) ==
    [board_meshes |-> a.board_meshes,
     goal_meshes |-> [a.goal_meshes EXCEPT ![At(bs, a.prev_goal)] = "goal"],
     placed |-> a.placed]

\* the boards create_board can return: a run that placed no goal calls
\* create_board again, a run that placed one returns after the promotion
create_board(bs, pl) ==
    {Promote(bs, a) : a \in {b \in Attempts(bs, pl) : b.goals # 0}}

\* the boards a run that placed no goal leaves behind before it retries
failed_boards(bs, pl) ==
    {[board_meshes |-> a.board_meshes, goal_meshes |-> a.goal_meshes,
      placed |-> a.placed] :
         a \in {b \in Attempts(bs, pl) : b.goals = 0}}

\* create_board and failed_boards tabulated per board size and position
RECURSIVE Tabulate(_, _, _)
Tabulate(bs, P, failed) ==
    IF P = {} THEN << >>
    ELSE LET pl == CHOOSE p \in P : TRUE
         IN  (pl :> (IF failed THEN failed_boards(bs, pl)
                     ELSE create_board(bs, pl)))
             @@ Tabulate(bs, P \ {pl}, failed)

RECURSIVE TabulateSizes(_, _)
TabulateSizes(S, failed) ==
    IF S = {} THEN << >>
    ELSE LET bs == CHOOSE b \in S : TRUE
         IN  (bs :> Tabulate(bs, Interior(bs), failed))
             @@ TabulateSizes(S \ {bs}, failed)

CreateBoardTable == TabulateSizes(Sizes, FALSE)

FailedBoardTable == TabulateSizes(Sizes, TRUE)

\* the locals of create_board outside a run
NoLocals ==
    [prev_goal |-> <<0, 0>>, goals |-> 0, board_counts |-> << >>,
     possible_cells |-> << >>, limit |-> 0, g |-> <<0, 0>>]

(***************************************************************************)
(* Game::move_player                                                       *)
(***************************************************************************)
\* the two assertions at the start of move_player
MoveAsserts(bs, pl) ==
    /\ pl[1] >= 1 /\ pl[1] + 1 < bs[1]
    /\ pl[2] >= 1 /\ pl[2] + 1 < bs[2]

\* MoveSlide without the break on goop
RECURSIVE MoveSlideThroughGoop(_, _, _, _, _, _)
MoveSlideThroughGoop(bs, bm, gm, pl, dx, dy) ==
    IF bm[Idx(bs, pl[1] + dx, pl[2] + dy)] # "wall"
    THEN MoveSlideThroughGoop(bs, bm, gm, <<pl[1] + dx, pl[2] + dy>>, dx, dy)
    ELSE pl

\* the while loop: step until on goop or the next tile is a wall
RECURSIVE MoveSlide(_, _, _, _, _, _)
MoveSlide(bs, bm, gm, pl, dx, dy) ==
    IF bm[Idx(bs, pl[1] + dx, pl[2] + dy)] # "wall"
    THEN LET nxt == <<pl[1] + dx, pl[2] + dy>>
         IN  IF gm[At(bs, nxt)] = "goop" THEN nxt
             ELSE MoveSlide(bs, bm, gm, nxt, dx, dy)
    ELSE pl

\* Gather that collects every checkpoint of the token's row
GatherRow(bs, gm, pl) ==
    [i \in DOMAIN gm |->
        IF gm[i] = "checkpoint" /\ i \div bs[1] = pl[2]
        THEN "checkpoint_collected" ELSE gm[i]]

\* "did the player gather a checkpoint?"
Gather(bs, gm, pl) ==
    IF gm[At(bs, pl)] = "checkpoint"
    THEN [gm EXCEPT ![At(bs, pl)] = "checkpoint_collected"]
    ELSE gm

\* GatherCount that also counts a collected checkpoint
GatherCountAgain(bs, gm, pl, n) ==
    IF gm[At(bs, pl)] \in {"checkpoint", "checkpoint_collected"}
    THEN n + 1 ELSE n

GatherCount(bs, gm, pl, n) ==
    IF gm[At(bs, pl)] = "checkpoint" THEN n + 1 ELSE n

move_player(dx, dy) ==
    LET rest == MoveSlide(board_size, board_meshes, goal_meshes, player,
                          dx, dy)
        gm == Gather(board_size, goal_meshes, rest)
    IN  /\ MoveAsserts(board_size, player)
        /\ GatherCount(board_size, goal_meshes, rest, checkpoints)
               <= MaxCheckpoints
        /\ player' = rest
        /\ goal_meshes' = gm
        /\ checkpoints' =
               GatherCount(board_size, goal_meshes, rest, checkpoints)
        /\ won' = (gm[At(board_size, rest)] = "goal")
        /\ UNCHANGED <<board_size, board_meshes, pc, placed>>

(***************************************************************************)
(* Game::handle_event, one action per key.  In these actions a call of     *)
(* create_board runs to its return.                                        *)
(***************************************************************************)
Handled(key) == evt' = key /\ from' = player /\ gen' = gen

\* KeyStep with the steps of up and down exchanged
KeyStepYDown(key) ==
    CASE key = "left"  -> <<-1, 0>>
      [] key = "right" -> <<1, 0>>
      [] key = "up"    -> <<0, -1>>
      [] key = "down"  -> <<0, 1>>

\* the step vectors handle_event passes to move_player
KeyStep(key) ==
    CASE key = "left"  -> <<-1, 0>>
      [] key = "right" -> <<1, 0>>
      [] key = "up"    -> <<0, 1>>
      [] key = "down"  -> <<0, -1>>

MoveKeys == {"left", "right", "up", "down"}

Left ==
    /\ pc = "idle"
    /\ move_player(KeyStep("left")[1], KeyStep("left")[2])
    /\ Handled("left")

Right ==
    /\ pc = "idle"
    /\ move_player(KeyStep("right")[1], KeyStep("right")[2])
    /\ Handled("right")

Up ==
    /\ pc = "idle"
    /\ move_player(KeyStep("up")[1], KeyStep("up")[2])
    /\ Handled("up")

Down ==
    /\ pc = "idle"
    /\ move_player(KeyStep("down")[1], KeyStep("down")[2])
    /\ Handled("down")

\* GiveUpCount without the test of checkpoints > 0
GiveUpCountNoFloor(n) == n - 1

\* the counter after "if (checkpoints > 0) checkpoints -= 1"
GiveUpCount(n) == IF n > 0 THEN n - 1 ELSE n

\* a call of create_board that returns: it writes the two vectors only
Regenerate ==
    \E b \in CreateBoardTable[board_size][player] :
        /\ board_meshes' = b.board_meshes
        /\ goal_meshes' = b.goal_meshes
        /\ placed' = b.placed

\* backspace: give up
Backspace ==
    /\ pc = "idle"
    /\ checkpoints' = GiveUpCount(checkpoints)
    /\ Regenerate
    /\ UNCHANGED <<board_size, player, won, pc>>
    /\ Handled("backspace")

\* MayAdvance without the test of won
MayAdvanceAlways == TRUE

\* the test that guards create_board in the space branch
MayAdvance == won

\* space (on goal): next level
Space ==
    /\ pc = "idle"
    /\ IF MayAdvance THEN Regenerate
       ELSE UNCHANGED <<board_meshes, goal_meshes, placed>>
    /\ UNCHANGED <<board_size, player, checkpoints, won, pc>>
    /\ Handled("space")

(***************************************************************************)
(* The fields of Game before the constructor calls create_board.  They are *)
(* set in Game.hpp.                                                        *)
(***************************************************************************)
InitialPlayer(bs) == Interior(bs)

InitialWon == FALSE

InitialCheckpoints == 0

\* the state after the constructor
Init ==
    /\ board_size \in Sizes
    /\ player \in InitialPlayer(board_size)
    /\ \E b \in CreateBoardTable[board_size][player] :
           /\ board_meshes = b.board_meshes
           /\ goal_meshes = b.goal_meshes
           /\ placed = b.placed
    /\ checkpoints = InitialCheckpoints
    /\ won = InitialWon
    /\ pc = "idle"
    /\ evt = "none"
    /\ from = player
    /\ gen = NoLocals

Next == Left \/ Right \/ Up \/ Down \/ Backspace \/ Space

Spec == Init /\ [][Next]_vars

(***************************************************************************)
(* The same program with the runs of create_board made visible: a run that *)
(* placed no goal calls create_board again (CreateBoardRetry), a run that  *)
(* placed one returns (CreateBoardReturn).  pc = "create_board" while a    *)
(* call of create_board has not returned.                                  *)
(***************************************************************************)
\* board_meshes.resize(board_size.x * board_size.y, nullptr)
UnsetBoard(bs) == [i \in 0 .. NumCells(bs) - 1 |-> "null"]

\* the constructor is about to call create_board
GenInit ==
    /\ board_size \in Sizes
    /\ player \in InitialPlayer(board_size)
    /\ board_meshes = UnsetBoard(board_size)
    /\ goal_meshes = << >>
    /\ placed = << >>
    /\ checkpoints = InitialCheckpoints
    /\ won = InitialWon
    /\ pc = "create_board"
    /\ evt = "none"
    /\ from = player
    /\ gen = NoLocals

CreateBoardRetry ==
    /\ pc = "create_board"
    /\ \E b \in FailedBoardTable[board_size][player] :
           /\ board_meshes' = b.board_meshes
           /\ goal_meshes' = b.goal_meshes
           /\ placed' = b.placed
    /\ UNCHANGED <<board_size, player, checkpoints, won, pc, evt, from, gen>>

CreateBoardReturn ==
    /\ pc = "create_board"
    /\ Regenerate
    /\ pc' = "idle"
    /\ UNCHANGED <<board_size, player, checkpoints, won, evt, from, gen>>

BackspaceCall ==
    /\ pc = "idle"
    /\ checkpoints' = GiveUpCount(checkpoints)
    /\ pc' = "create_board"
    /\ UNCHANGED <<board_size, board_meshes, goal_meshes, placed, player,
                   won>>
    /\ Handled("backspace")

SpaceCall ==
    /\ pc = "idle"
    /\ pc' = IF MayAdvance THEN "create_board" ELSE "idle"
    /\ UNCHANGED <<board_size, board_meshes, goal_meshes, placed, player,
                   checkpoints, won>>
    /\ Handled("space")

GenNext ==
    \/ Left \/ Right \/ Up \/ Down
    \/ BackspaceCall \/ SpaceCall
    \/ CreateBoardRetry \/ CreateBoardReturn

\* a run of create_board that can place a goal is eventually drawn
LiveSpec == GenInit /\ [][GenNext]_vars /\ WF_vars(CreateBoardReturn)

\* C6: every call of create_board returns
C6_GenerateTerminates == (pc = "create_board") ~> (pc = "idle")

(***************************************************************************)
(* Play on one board of 5 by 5 cells.  The board is one the constructor    *)
(* can leave: a run of create_board in which every wall drawn fell on the  *)
(* player's cell and the goop drawn is one of ScenarioGoops.  Only the     *)
(* four move keys are pressed.                                             *)
(***************************************************************************)
ScenarioSize == <<5, 5>>

ScenarioStarts == {<<2, 2>>, <<2, 1>>, <<1, 1>>}

\* the sets of goop cells of the boards played on
ScenarioGoops == {{}, {<<2, 2>>}}

\* the results of the wall loop that left the interior open
OpenBoards(bs, pl) ==
    {bm \in RandomWalls(bs, pl) :
         \A c \in Interior(bs) : bm[At(bs, c)] # "wall"}

\* the results of the goop loop whose goop cells are one of ScenarioGoops
ScenarioGoopLoop(bs, bm) ==
    {gm \in RandomGoops(bs, bm) :
         {c \in Interior(bs) : gm[At(bs, c)] = "goop"} \in ScenarioGoops}

\* the boards create_board returns in these runs
ScenarioBoards(bs, pl) ==
    UNION {UNION {
        {Promote(bs, [board_meshes |-> bm, goal_meshes |-> r.goal_meshes,
                      goals |-> r.goals, prev_goal |-> r.prev_goal,
                      placed |-> r.placed]) :
             r \in {q \in GoalLoop(bs, bm, gm, pl, pl, 0, << >>) :
                        q.goals # 0}}
        : gm \in ScenarioGoopLoop(bs, bm)}
        : bm \in OpenBoards(bs, pl)}

MoveInit ==
    /\ board_size = ScenarioSize
    /\ player \in ScenarioStarts
    /\ \E b \in ScenarioBoards(ScenarioSize, player) :
           /\ board_meshes = b.board_meshes
           /\ goal_meshes = b.goal_meshes
           /\ placed = b.placed
    /\ checkpoints = InitialCheckpoints
    /\ won = InitialWon
    /\ pc = "idle"
    /\ evt = "none"
    /\ from = player
    /\ gen = NoLocals

MoveNext == Left \/ Right \/ Up \/ Down

MoveSpec == MoveInit /\ [][MoveNext]_vars

(***************************************************************************)
(* One run of create_board from line 439 on, statement by statement.  gen  *)
(* holds the locals prev_goal, goals, board_counts, possible_cells, limit  *)
(* and g; pc is the position in the run:                                   *)
(*   "walks"      before the walks of an iteration of while (goals < 2)    *)
(*   "counted"    board_counts is filled                                   *)
(*   "sorted"     possible_cells is filled and sorted                      *)
(*   "limited"    limit is computed                                        *)
(*   "after_loop" the while loop is left                                   *)
(*   "returned"   create_board has returned                                *)
(***************************************************************************)
\* the locals at line 441
StartLocals(pl) == [NoLocals EXCEPT !.prev_goal = pl]

\* walls and goops are placed, the while loop is about to start
StepInit ==
    /\ board_size \in Sizes
    /\ player \in InitialPlayer(board_size)
    /\ board_meshes \in RandomWalls(board_size, player)
    /\ goal_meshes \in RandomGoops(board_size, board_meshes)
    /\ placed = << >>
    /\ gen = StartLocals(player)
    /\ checkpoints = InitialCheckpoints
    /\ won = InitialWon
    /\ pc = "walks"
    /\ evt = "none"
    /\ from = player

\* the random walks of one iteration
Walks ==
    /\ pc = "walks"
    /\ gen.goals < 2
    /\ \E c \in board_counts(board_size, board_meshes, goal_meshes,
                             gen.prev_goal) :
           gen' = [gen EXCEPT !.board_counts = c]
    /\ pc' = "counted"
    /\ UNCHANGED <<board_size, board_meshes, goal_meshes, player,
                   checkpoints, won, evt, from, placed>>

\* the list of possible cells, the break when it is empty, and the sort
ListCells ==
    /\ pc = "counted"
    /\ LET cells == possible_cells(board_size, goal_meshes,
                                   gen.board_counts, player)
       IN  IF cells = << >>
           THEN /\ gen' = [gen EXCEPT !.possible_cells = cells]
                /\ pc' = "after_loop"
           ELSE /\ gen' = [gen EXCEPT !.possible_cells =
                               StableSort(board_size, gen.board_counts,
                                          cells)]
                /\ pc' = "sorted"
    /\ UNCHANGED <<board_size, board_meshes, goal_meshes, player,
                   checkpoints, won, evt, from, placed>>

\* limit and the loop that extends it
ChooseLimit ==
    /\ pc = "sorted"
    /\ gen' = [gen EXCEPT !.limit = Limit(board_size, gen.board_counts,
                                          gen.possible_cells)]
    /\ pc' = "limited"
    /\ UNCHANGED <<board_size, board_meshes, goal_meshes, player,
                   checkpoints, won, evt, from, placed>>

\* g = possible_cells[mt() % limit] and the placement of the checkpoint
PickCell ==
    /\ pc = "limited"
    /\ \E r \in MtRange :
           LET g == gen.possible_cells[(r % gen.limit) + 1]
           IN  /\ goal_meshes' =
                      [goal_meshes EXCEPT ![At(board_size, g)] = "checkpoint"]
               /\ gen' = [gen EXCEPT !.g = g, !.goals = @ + 1,
                                     !.prev_goal = g]
               /\ placed' = Append(placed, g)
    /\ pc' = IF gen.goals + 1 < 2 THEN "walks" ELSE "after_loop"
    /\ UNCHANGED <<board_size, board_meshes, player, checkpoints, won, evt,
                   from>>

\* goals == 0: create_board is called again and runs to line 439
StepRetry ==
    /\ pc = "after_loop"
    /\ gen.goals = 0
    /\ board_meshes' \in RandomWalls(board_size, player)
    /\ goal_meshes' \in RandomGoops(board_size, board_meshes')
    /\ placed' = << >>
    /\ gen' = StartLocals(player)
    /\ pc' = "walks"
    /\ UNCHANGED <<board_size, player, checkpoints, won, evt, from>>

\* goals # 0: the last goal becomes the main goal and create_board returns
StepReturn ==
    /\ pc = "after_loop"
    /\ gen.goals # 0
    /\ goal_meshes' =
           Promote(board_size,
                   [board_meshes |-> board_meshes,
                    goal_meshes |-> goal_meshes,
                    prev_goal |-> gen.prev_goal,
                    placed |-> placed]).goal_meshes
    /\ pc' = "returned"
    /\ UNCHANGED <<board_size, board_meshes, player, checkpoints, won, evt,
                   from, placed, gen>>

StepNext ==
    \/ Walks \/ ListCells \/ ChooseLimit \/ PickCell
    \/ StepRetry \/ StepReturn

StepSpec == StepInit /\ [][StepNext]_vars

(***************************************************************************)
(* Lines 460-489 on board_counts drawn freely: the walks of the program    *)
(* (100 walks of 20 steps) can leave any count on a cell the token can     *)
(* rest on.  The board is 5 by 5 with walls on the border only, so up to   *)
(* eight cells are candidates.                                             *)
(***************************************************************************)
LimitStart == <<2, 2>>

\* the vectors board_counts that are 0 outside the interior
FreeCounts(bs) ==
    {[i \in 0 .. NumCells(bs) - 1 |->
         IF <<i % bs[1], i \div bs[1]>> \in Interior(bs)
         THEN f[<<i % bs[1], i \div bs[1]>>] ELSE 0] :
         f \in [Interior(bs) -> 0 .. MaxCount]}

LimitInit ==
    /\ board_size = ScenarioSize
    /\ player = LimitStart
    /\ board_meshes = BaseTerrain(board_size)
    /\ goal_meshes = EmptyGoals(board_size)
    /\ placed = << >>
    /\ gen \in {[StartLocals(player) EXCEPT !.board_counts = c] :
                    c \in FreeCounts(board_size)}
    /\ checkpoints = InitialCheckpoints
    /\ won = InitialWon
    /\ pc = "counted"
    /\ evt = "none"
    /\ from = player

LimitNext == ListCells \/ ChooseLimit \/ PickCell

LimitSpec == LimitInit /\ [][LimitNext]_vars

(***************************************************************************)
(* Properties.                                                             *)
(***************************************************************************)
\* the marking of the token's cell
TokenMark == goal_meshes[At(board_size, player)]

\* the cells that carry marking m
Marked(m) ==
    {c \in (0 .. board_size[1] - 1) \X (0 .. board_size[2] - 1) :
         goal_meshes[At(board_size, c)] = m}

\* the last event made create_board return, or no event came yet
Fresh ==
    \/ evt = "none"
    \/ evt = "backspace"
    \/ evt = "space" /\ won

\* the cell next to c in the direction of step vector d
Toward(c, d) == <<c[1] + d[1], c[2] + d[2]>>

IsWall(c) == board_meshes[At(board_size, c)] = "wall"

\* C1: the win flag is true exactly when the token's cell is the Goal cell
C1_WonIffOnGoal == (pc = "idle") => (won <=> TokenMark = "goal")

\* C2: every perimeter cell is Wall, after a generation and after any moves
C2_PerimeterIsWall ==
    \A x \in 0 .. board_size[1] - 1, y \in 0 .. board_size[2] - 1 :
        (x \in {0, board_size[1] - 1} \/ y \in {0, board_size[2] - 1})
            => board_meshes[Idx(board_size, x, y)] = "wall"

\* a move slid the token over the board of a generation
C2_Witness ==
    /\ evt \in MoveKeys
    /\ from # player
    /\ Marked("goop") # {}

\* the k-th cell from c in the direction of d
Ahead(c, d, k) == <<c[1] + k * d[1], c[2] + k * d[2]>>

MaxSlide == board_size[1] + board_size[2]

\* C3: the token is strictly inside the border and its cell is not Wall;
\* a move takes it along the key's direction over cells that are not Wall
C3_TokenInsideNotWall ==
    /\ 1 <= player[1] /\ player[1] < board_size[1] - 1
    /\ 1 <= player[2] /\ player[2] < board_size[2] - 1
    /\ ~IsWall(player)
    /\ evt \in MoveKeys =>
           \E n \in 0 .. MaxSlide :
               /\ player = Ahead(from, KeyStep(evt), n)
               /\ \A j \in 0 .. n : ~IsWall(Ahead(from, KeyStep(evt), j))

\* a move stopped the token in front of a wall that generation placed
C3_Witness ==
    /\ evt \in MoveKeys
    /\ from # player
    /\ Toward(player, KeyStep(evt)) \in Interior(board_size)
    /\ IsWall(Toward(player, KeyStep(evt)))

\* C4: a board returned by create_board has exactly one Goal, at most one
\* Checkpoint, no CheckpointCollected, and the Goal is the cell placed last
C4_OneGoalPlacedLast ==
    Fresh =>
        /\ Cardinality(Marked("goal")) = 1
        /\ Cardinality(Marked("checkpoint")) <= 1
        /\ Marked("checkpoint_collected") = {}
        /\ Len(placed) \in {1, 2}
        /\ Len(placed) = 1 + Cardinality(Marked("checkpoint"))
        /\ Marked("goal") = {placed[Len(placed)]}

\* create_board returned a board with a Checkpoint and a Goal
C4_Witness ==
    /\ evt = "backspace"
    /\ Len(placed) = 2
    /\ Marked("checkpoint") = {placed[1]}

\* the cells where one move from a cell of S can leave the token
MoveRests(S) ==
    {MoveSlide(board_size, board_meshes, goal_meshes, c,
               KeyStep(k)[1], KeyStep(k)[2]) : c \in S, k \in MoveKeys}

\* the cells where the token can rest after one or more moves from S
RECURSIVE RestsFrom(_, _)
RestsFrom(S, R) ==
    LET more == R \cup MoveRests(S \cup R)
    IN  IF more = R THEN R ELSE RestsFrom(S, more)

CanRest(c, target) == target \in RestsFrom({c}, {})

\* C5: on a board returned by create_board some moves bring the token to
\* rest on the Goal, and on the Checkpoint first when there is one
C5_GoalReachable ==
    Fresh =>
        /\ \A g \in Marked("goal") : CanRest(player, g)
        /\ \A c \in Marked("checkpoint") :
               /\ CanRest(player, c)
               /\ \A g \in Marked("goal") : CanRest(c, g)
        /\ Marked("goal") # {}

\* create_board returned a board whose Goal no single move reaches and
\* whose Checkpoint lies on the way
C5_Witness ==
    /\ Fresh
    /\ Marked("checkpoint") # {}
    /\ Marked("goal") \cap MoveRests({player}) = {}

\* the slide from c in direction d enters a Sticky cell after k steps: no
\* Wall and no other Sticky cell lies between
EntersSticky(c, d, k) ==
    /\ \A j \in 1 .. k : Ahead(c, d, j) \in Interior(board_size)
    /\ \A j \in 1 .. k : ~IsWall(Ahead(c, d, j))
    /\ \A j \in 1 .. k - 1 : goal_meshes[At(board_size, Ahead(c, d, j))] # "goop"
    /\ goal_meshes[At(board_size, Ahead(c, d, k))] = "goop"

\* C7: a slide that enters a Sticky cell leaves the token on it, and a
\* token on a Sticky cell moves off it when the next cell is not Wall
C7_StickyStop ==
    [][\A key \in MoveKeys : evt' = key =>
          /\ \A k \in 1 .. MaxSlide :
                 EntersSticky(player, KeyStep(key), k)
                     => player' = Ahead(player, KeyStep(key), k)
          /\ (TokenMark = "goop" /\ ~IsWall(Toward(player, KeyStep(key))))
                 => player' # player
      ]_vars

\* a move left the token on a Sticky cell although the next cell is open
C7_Witness ==
    /\ evt \in MoveKeys
    /\ from # player
    /\ TokenMark = "goop"
    /\ ~IsWall(Toward(player, KeyStep(evt)))

\* C8: a move that rests on a Checkpoint cell adds one to the counter and
\* makes the cell CheckpointCollected; a move that rests on a
\* CheckpointCollected cell leaves the counter; no move makes a cell
\* Checkpoint
C8_CollectOnce ==
    [][evt' \in MoveKeys =>
          /\ goal_meshes[At(board_size, player')] = "checkpoint"
                 => /\ checkpoints' = checkpoints + 1
                    /\ goal_meshes'[At(board_size, player')]
                           = "checkpoint_collected"
          /\ goal_meshes[At(board_size, player')] = "checkpoint_collected"
                 => /\ checkpoints' = checkpoints
                    /\ goal_meshes' = goal_meshes
          /\ \A i \in DOMAIN goal_meshes :
                 goal_meshes'[i] = "checkpoint"
                     => goal_meshes[i] = "checkpoint"
      ]_vars

\* a blocked move ended on the cell the token had collected earlier
C8_Witness ==
    /\ evt \in MoveKeys
    /\ TokenMark = "checkpoint_collected"
    /\ from = player
    /\ checkpoints = 1

\* this step wrote a board that create_board returns for the token's cell
Regenerated ==
    [board_meshes |-> board_meshes', goal_meshes |-> goal_meshes',
     placed |-> placed'] \in CreateBoardTable[board_size][player]

\* C9: give-up takes one from a positive counter, leaves a zero counter,
\* and regenerates the board whatever the win flag; the counter is never
\* negative
C9_GiveUpFloor ==
    /\ [](checkpoints \in Nat)
    /\ [][evt' = "backspace" =>
             /\ checkpoints > 0 => checkpoints' = checkpoints - 1
             /\ checkpoints = 0 => checkpoints' = 0
             /\ Regenerated
             /\ player' = player /\ won' = won
         ]_vars

\* give-up with the win flag set took the counter from 2 to 1
C9_Witness ==
    /\ evt = "backspace"
    /\ won
    /\ checkpoints = MaxCheckpoints - 1

\* C10: advance-level regenerates only when the win flag is true, and
\* changes nothing of the game when it is false
C10_AdvanceOnlyWhenWon ==
    [][evt' = "space" =>
          IF won
          THEN /\ Regenerated
               /\ UNCHANGED <<player, checkpoints, won>>
          ELSE UNCHANGED <<board_meshes, goal_meshes, player, checkpoints,
                           won>>
      ]_vars

\* advance-level came with the win flag false and a collected checkpoint
C10_Witness ==
    /\ evt = "space"
    /\ ~won
    /\ Marked("checkpoint_collected") # {}

\* C11: a move toward a Wall next to the token leaves the token's position
\* and the win flag as they were
C11_BlockedMoveNoEffect ==
    [][\A key \in MoveKeys :
          (evt' = key /\ IsWall(Toward(player, KeyStep(key))))
              => (player' = player /\ won' = won)
      ]_vars

\* no Wall stands inside the border
OpenInterior == \A c \in Interior(board_size) : ~IsWall(c)

\* the board of C12: 5 by 5, walls on the border only, no Sticky cell, the
\* Goal at (3,1)
C12_Scene ==
    /\ board_size = <<5, 5>>
    /\ OpenInterior
    /\ Marked("goop") = {}
    /\ Marked("goal") = {<<3, 1>>}

\* C12 as stated: from (2,2), Up then Right ends on (3,1) with the win flag
\* true, and Up never takes the token to a larger y
C12_UpRightToGoal ==
    [][/\ (C12_Scene /\ evt = "up" /\ from = <<2, 2>> /\ evt' = "right")
              => (player' = <<3, 1>> /\ won')
       /\ evt' = "up" => player'[2] <= player[2]
      ]_vars

\* C12 amended: from (2,2), Up then Right ends on (3,3) with the win flag
\* false and Down then Right ends on (3,1) with the win flag true; Up takes
\* the token toward y = height-2, Down toward y = 1, Right toward
\* x = width-2
C12_UpRightAwayFromGoal ==
    [][/\ (C12_Scene /\ evt = "up" /\ from = <<2, 2>> /\ evt' = "right")
              => (player' = <<3, 3>> /\ ~won')
       /\ (C12_Scene /\ evt = "down" /\ from = <<2, 2>> /\ evt' = "right")
              => (player' = <<3, 1>> /\ won')
       /\ evt' = "up"
              => /\ player'[1] = player[1] /\ player'[2] >= player[2]
                 /\ C12_Scene => player'[2] = board_size[2] - 2
       /\ evt' = "right"
              => /\ player'[2] = player[2] /\ player'[1] >= player[1]
                 /\ C12_Scene => player'[1] = board_size[1] - 2
       /\ evt' = "down"
              => /\ player'[1] = player[1] /\ player'[2] <= player[2]
                 /\ C12_Scene => player'[2] = 1
      ]_vars

\* Right was pressed on the board of C12 with the token on (2,3), where Up
\* takes it from (2,2)
C12_Witness ==
    /\ C12_Scene
    /\ evt = "right"
    /\ from = <<2, 3>>
    /\ player = <<3, 3>>
    /\ ~won

\* the board of C13: 5 by 5, walls on the border only, one Sticky cell, at
\* (2,2)
C13_Scene ==
    /\ board_size = <<5, 5>>
    /\ OpenInterior
    /\ Marked("goop") = {<<2, 2>>}

\* C13 as stated: from (2,1), Down leaves the token on (2,2)
C13_DownOntoSticky ==
    [][(C13_Scene /\ player = <<2, 1>> /\ evt' = "down")
           => player' = <<2, 2>>
      ]_vars

\* C13 amended: from (2,1), Up leaves the token on the Sticky cell (2,2)
\* and Down leaves it on (2,1)
C13_UpOntoSticky ==
    [][(C13_Scene /\ player = <<2, 1>>)
           => /\ evt' = "up" => player' = <<2, 2>>
              /\ evt' = "down" => player' = <<2, 1>>
      ]_vars

\* Up took the token from (2,1) onto the Sticky cell (2,2)
C13_Witness ==
    /\ C13_Scene
    /\ evt = "up"
    /\ from = <<2, 1>>
    /\ player = <<2, 2>>
    /\ ~IsWall(<<2, 3>>)

\* C14: the counter is changed only by a move that rests on a Checkpoint
\* (+1) and by backspace (-1, not below 0); the steps of create_board, its
\* retries included, and space leave it as it was
C14_CounterChangedOnlyByCollectAndGiveUp ==
    [][/\ pc = "create_board" => checkpoints' = checkpoints
       /\ (pc = "idle" /\ evt' = "space") => checkpoints' = checkpoints
       /\ (pc = "idle" /\ evt' = "backspace")
              => checkpoints' =
                     IF checkpoints > 0 THEN checkpoints - 1 ELSE 0
       /\ (pc = "idle" /\ evt' \in MoveKeys)
              => checkpoints' =
                     IF goal_meshes[At(board_size, player')] = "checkpoint"
                     THEN checkpoints + 1 ELSE checkpoints
      ]_vars

\* space on a won level has brought a new board, and the counter still
\* holds the checkpoint collected on the level before
C14_Witness ==
    /\ evt = "space"
    /\ pc = "idle"
    /\ won
    /\ checkpoints >= 1
    /\ Marked("checkpoint_collected") = {}

\* the count board_counts holds for the k-th cell of the sorted list
CountOf(k) == gen.board_counts[At(board_size, gen.possible_cells[k])]

\* limit before the loop that extends it
Quartile == Max(1, Len(gen.possible_cells) \div 4)

\* C15: when limit is computed, every candidate with the count of the last
\* included candidate is among the first limit entries, and every entry the
\* extension added has that count
C15_CutoffKeepsTieGroup ==
    pc = "limited" =>
        /\ \A k \in 1 .. Len(gen.possible_cells) :
               CountOf(k) = CountOf(gen.limit) => k <= gen.limit
        /\ \A k \in Quartile + 1 .. gen.limit :
               CountOf(k) = CountOf(gen.limit)

\* C16: from every interior cell and in every direction, the slide of a
\* simulated step rests on the cell where move_player leaves the token
C16_WalkSlideIsMoveSlide ==
    \A c \in Interior(board_size) : \A i \in DOMAIN directions :
        WalkSlide(board_size, board_meshes, goal_meshes, c, directions[i])
            = MoveSlide(board_size, board_meshes, goal_meshes, c,
                        directions[i][1], directions[i][2])

\* a move has slid the token over more than one cell to the cell where a
\* simulated step from the same cell in the same direction rests
C16_Witness ==
    /\ evt \in MoveKeys
    /\ from # player
    /\ from # Toward(player, <<-KeyStep(evt)[1], -KeyStep(evt)[2]>>)
    /\ WalkSlide(board_size, board_meshes, goal_meshes, from, KeyStep(evt))
           = player

\* C17: the cell g a run of create_board chooses is an interior cell that
\* is not Wall, not the token's cell and carries no marking, so the
\* assertion holds and no Sticky cell is overwritten; on the board the run
\* returns no Wall cell carries a marking
C17_ChosenCellsFree ==
    [][/\ (pc = "limited" /\ pc' # "limited")
              => /\ gen'.g \in Interior(board_size)
                 /\ board_meshes[At(board_size, gen'.g)] # "wall"
                 /\ gen'.g # player
                 /\ goal_meshes[At(board_size, gen'.g)] = "null"
                 /\ \A i \in DOMAIN goal_meshes :
                        goal_meshes[i] = "goop" => goal_meshes'[i] = "goop"
       /\ pc' = "returned"
              => \A i \in DOMAIN goal_meshes' :
                     board_meshes'[i] = "wall" => goal_meshes'[i] = "null"
      ]_vars

\* a run has returned a board with a Wall inside the border, a Sticky cell,
\* a Checkpoint and the Goal
C17_Witness ==
    /\ pc = "returned"
    /\ Len(placed) = 2
    /\ Marked("goop") # {}
    /\ Marked("checkpoint") # {}
    /\ Marked("goal") # {}
    /\ ~OpenInterior

\* C18: a move changes no marking but that of the cell it rests on, changes
\* the counter only when that cell is a Checkpoint, and leaves the win
\* flag false when that cell is not the Goal
C18_OnlyRestingCell ==
    [][evt' \in MoveKeys =>
          /\ \A i \in DOMAIN goal_meshes :
                 i # At(board_size, player')
                     => goal_meshes'[i] = goal_meshes[i]
          /\ goal_meshes[At(board_size, player')] # "checkpoint"
                 => checkpoints' = checkpoints
          /\ goal_meshes[At(board_size, player')] # "goal" => ~won'
      ]_vars

\* a move slid the token across a Checkpoint cell, which is still
\* Checkpoint
C18_Witness ==
    /\ evt \in MoveKeys
    /\ \E n \in 2 .. MaxSlide : \E k \in 1 .. n - 1 :
           /\ player = Ahead(from, KeyStep(evt), n)
           /\ goal_meshes[At(board_size, Ahead(from, KeyStep(evt), k))]
                  = "checkpoint"

\* C19: when limit is computed for a list that is not empty,
\* 1 <= limit <= size of the list, every index mt() % limit is an index of
\* the list, and so is every index the loop that extends limit has read
C19_LimitInRange ==
    pc = "limited" =>
        LET n == Len(gen.possible_cells)
        IN  /\ n >= 1
            /\ 1 <= gen.limit
            /\ gen.limit <= n
            /\ \A r \in MtRange : r % gen.limit \in 0 .. n - 1
            /\ \A l \in Quartile .. gen.limit :
                   l + 1 < n => {l, l + 1} \subseteq 0 .. n - 1

\* limit is computed for a list of eight cells and the loop has extended it
\* past the quartile
C19_Witness ==
    /\ pc = "limited"
    /\ Len(gen.possible_cells) = 8
    /\ Quartile = 2
    /\ gen.limit > Quartile
====
